---- MODULE Spec2Model ----
(***************************************************************************)
(* A model of dataikuapi/dss/ml.py: the client-side handles of a DSS ML    *)
(* task.  The settings of a task are a nested mapping fetched from the     *)
(* server, changed in place by the setters and pushed back by save().      *)
(*                                                                         *)
(* A Python dict is a TLA+ function whose DOMAIN is the set of keys the    *)
(* dict holds; None is the string "None".                                  *)
(***************************************************************************)
EXTENDS Integers, Sequences, FiniteSets, TLC

VARIABLES
    splitParams,    \* mltask_settings["splitParams"]
    metrics,        \* mltask_settings["modeling"]["metrics"]
    per_feature,    \* mltask_settings["preprocessing"]["per_feature"]
    weight,         \* mltask_settings["weight"]
    taskType,       \* mltask_settings["taskType"]
    algorithms,     \* mltask_settings["modeling"][<algorithm key>]
    server,         \* the settings of the task as the server holds them
    peer,           \* the settings object another caller holds for the same task
    model,          \* the trained model detail wrapper the caller holds
    requests,       \* the HTTP requests the client has issued, in order
    srvStatus,      \* the status mapping the server answers GET .../status with
    pc,             \* where a wait_*_complete call stands
    waitOn,         \* the status key the wait tests: "training" or "guessing"
    fetched,        \* the flag of each status the wait has fetched
    sleeps,         \* the time.sleep intervals of the wait, in ms
    calls,          \* number of setter calls the client script has made
    last            \* the last call made: its name, arguments and outcome

settingsVars == <<splitParams, metrics, per_feature, weight, taskType, algorithms>>

peerVars == <<server, peer>>

taskVars == <<requests, srvStatus, pc, waitOn, fetched, sleeps>>

vars == <<splitParams, metrics, per_feature, weight, taskType, algorithms,
          server, peer, model, requests, srvStatus, pc, waitOn, fetched, sleeps,
          calls, last>>

----------------------------------------------------------------------------
(* Bounds of the model *)

\* A client script makes at most MaxCalls split-setter calls.
MaxCalls == 2

\* A script that saves makes at most MaxSaveCalls counted setter calls.
MaxSaveCalls == 2

\* n_folds is drawn from 1..MaxFolds.
MaxFolds == 2

\* A client script makes at most MaxFeatureCalls feature-setter calls.
MaxFeatureCalls == 3

\* The client issues at most MaxRequests HTTP requests.
MaxRequests == 4

----------------------------------------------------------------------------
(* Python values *)

None == "None"

EmptyDict == [k \in {} |-> None]

\* d[key] = v on a dict
DictSet(d, key, v) == [k \in (DOMAIN d) \cup {key} |-> IF k = key THEN v ELSE d[k]]

\* d.get(key, default)
DictGet(d, key, default) == IF key \in DOMAIN d THEN d[key] ELSE default

\* An argument that is None, a raw mapping, or a builder object.
NoneArg == [type |-> "NoneType", value |-> None]
RawArg(v) == [type |-> "dict", value |-> v]
BuilderArg(cls, v) == [type |-> cls, value |-> v]

\* DSSDatasetSelectionBuilder.build() / DSSFilterBuilder.build(): the mapping
\* the builder has accumulated.
Build(b) == b.value

\* if isinstance(x, cls): x.build() else: x
BuildIfBuilder(x, cls) == IF x.type = cls THEN Build(x) ELSE x.value

DatasetArgs == {None, "d1", "d2"}
SelectionArgs == {NoneArg, RawArg("sel1"), BuilderArg("DSSDatasetSelectionBuilder", "sel2")}
FilterArgs == {NoneArg, RawArg("flt1"), BuilderArg("DSSFilterBuilder", "flt2")}
TrainRatios == {50, 80}

\* <<train_selection, test_selection, train_filter, test_filter>> of the
\* set_split_explicit calls made: none given, each one given alone (as a raw
\* mapping or as a builder), all four given.
ExplicitOptionalArgs ==
    { <<NoneArg, NoneArg, NoneArg, NoneArg>>,
      <<RawArg("sel1"), NoneArg, NoneArg, NoneArg>>,
      <<NoneArg, BuilderArg("DSSDatasetSelectionBuilder", "sel2"), NoneArg, NoneArg>>,
      <<NoneArg, NoneArg, BuilderArg("DSSFilterBuilder", "flt2"), NoneArg>>,
      <<NoneArg, NoneArg, NoneArg, RawArg("flt1")>>,
      <<BuilderArg("DSSDatasetSelectionBuilder", "sel2"), RawArg("sel1"),
        RawArg("flt1"), BuilderArg("DSSFilterBuilder", "flt2")>> }
FoldArgs == 1..MaxFolds

----------------------------------------------------------------------------
(* PredictionSplitParamsHandler *)

\* if selection is not None: sp["ssdSelection"] = ...
SetSsdSelection(sp, selection) ==
    IF selection # NoneArg
    THEN DictSet(sp, "ssdSelection", BuildIfBuilder(selection, "DSSDatasetSelectionBuilder"))
    ELSE sp

\* if dataset_name is not None: sp["ssdDatasetSmartName"] = dataset_name
SetSsdDataset(sp, dataset_name) ==
    IF dataset_name # None THEN DictSet(sp, "ssdDatasetSmartName", dataset_name) ELSE sp

SplitRandomResult(sp, train_ratio, selection, dataset_name) ==
    LET sp1 == DictSet(sp, "ttPolicy", "SPLIT_SINGLE_DATASET")
        sp2 == SetSsdSelection(sp1, selection)
        sp3 == DictSet(sp2, "ssdTrainingRatio", train_ratio)
        sp4 == DictSet(sp3, "kfold", FALSE)
    IN  SetSsdDataset(sp4, dataset_name)

set_split_random(train_ratio, selection, dataset_name) ==
    /\ calls < MaxCalls
    /\ splitParams' = SplitRandomResult(splitParams, train_ratio, selection, dataset_name)
    /\ calls' = calls + 1
    /\ last' = [op |-> "set_split_random", raised |-> FALSE,
                selection |-> selection, dataset_name |-> dataset_name]
    /\ UNCHANGED <<metrics, per_feature, weight, taskVars,
                 taskType, algorithms, peerVars, model>>

SplitKfoldResult(sp, n_folds, selection, dataset_name) ==
    LET sp1 == DictSet(sp, "ttPolicy", "SPLIT_SINGLE_DATASET")
        sp2 == SetSsdSelection(sp1, selection)
        sp3 == DictSet(sp2, "kfold", TRUE)
        sp4 == DictSet(sp3, "nFolds", n_folds)
    IN  SetSsdDataset(sp4, dataset_name)

set_split_kfold(n_folds, selection, dataset_name) ==
    /\ calls < MaxCalls
    /\ splitParams' = SplitKfoldResult(splitParams, n_folds, selection, dataset_name)
    /\ calls' = calls + 1
    /\ last' = [op |-> "set_split_kfold", raised |-> FALSE,
                selection |-> selection, dataset_name |-> dataset_name]
    /\ UNCHANGED <<metrics, per_feature, weight, taskVars,
                 taskType, algorithms, peerVars, model>>

\* A slip: the comparison with dataset_name is forgotten.
ExplicitIsSingle_OnlyNone(dataset_name, test_dataset_name) ==
    test_dataset_name = None

\* if test_dataset_name is None or test_dataset_name == dataset_name
ExplicitIsSingle(dataset_name, test_dataset_name) ==
    test_dataset_name = None \/ test_dataset_name = dataset_name

\* the four "if ... is not None" blocks filling one split mapping
FillSplit(split, selection, filter) ==
    LET s1 == IF selection # NoneArg
              THEN DictSet(split, "selection",
                           BuildIfBuilder(selection, "DSSDatasetSelectionBuilder"))
              ELSE split
    IN  IF filter # NoneArg
        THEN DictSet(s1, "filter", BuildIfBuilder(filter, "DSSFilterBuilder"))
        ELSE s1

\* train_split = {} or {'datasetSmartName': name}
NewSplit(single, name) ==
    IF single THEN EmptyDict ELSE [datasetSmartName |-> name]

SplitExplicitResult(sp, train_selection, test_selection, dataset_name, test_dataset_name, train_filter, test_filter) ==
    LET single == ExplicitIsSingle(dataset_name, test_dataset_name)
        train_split == FillSplit(NewSplit(single, dataset_name), train_selection, train_filter)
        test_split == FillSplit(NewSplit(single, test_dataset_name), test_selection, test_filter)
    IN  IF single
        THEN DictSet(DictSet(DictSet(DictSet(sp,
                 "ttPolicy", "EXPLICIT_FILTERING_SINGLE_DATASET"),
                 "efsdDatasetSmartName", dataset_name),
                 "efsdTrain", train_split),
                 "efsdTest", test_split)
        ELSE DictSet(DictSet(DictSet(sp,
                 "ttPolicy", "EXPLICIT_FILTERING_TWO_DATASETS"),
                 "eftdTrain", train_split),
                 "eftdTest", test_split)

set_split_explicit(train_selection, test_selection, dataset_name, test_dataset_name, train_filter, test_filter) ==
    /\ calls < MaxCalls
    /\ calls' = calls + 1
    /\ IF dataset_name = None
       THEN \* raise Exception("For explicit splitting a dataset_name is mandatory")
            /\ UNCHANGED splitParams
       ELSE /\ splitParams' = SplitExplicitResult(splitParams, train_selection,
                                  test_selection, dataset_name, test_dataset_name,
                                  train_filter, test_filter)
    /\ last' = [op |-> "set_split_explicit", raised |-> (dataset_name = None),
                train_selection |-> train_selection, test_selection |-> test_selection,
                dataset_name |-> dataset_name, test_dataset_name |-> test_dataset_name,
                train_filter |-> train_filter, test_filter |-> test_filter]
    /\ UNCHANGED <<metrics, per_feature, weight, taskVars,
                 taskType, algorithms, peerVars, model>>

----------------------------------------------------------------------------
(* DSSMLTaskSettings.set_metric *)

MetricArgs == {None, "AUC", "F1", "RMSE"}
CustomMetricArgs == {None, "code1", "code2"}

\* A slip: "or" for "and".
MetricMissing_Or(metric, custom_metric) ==
    custom_metric = None \/ metric = None

\* if custom_metric is None and metric is None
MetricMissing(metric, custom_metric) ==
    custom_metric = None /\ metric = None

\* A slip: the metric is stored whether or not a custom metric is given.
EvaluationMetricValue_NoCustom(metric, custom_metric) ==
    metric

\* metric if custom_metric is None else 'CUSTOM'
EvaluationMetricValue(metric, custom_metric) ==
    IF custom_metric = None THEN metric ELSE "CUSTOM"

SetMetricResult(m, metric, custom_metric, custom_metric_greater_is_better, custom_metric_use_probas) ==
    LET m1 == DictSet(m, "evaluationMetric", EvaluationMetricValue(metric, custom_metric))
        m2 == DictSet(m1, "customEvaluationMetricCode", custom_metric)
        m3 == DictSet(m2, "customEvaluationMetricGIB", custom_metric_greater_is_better)
    IN  DictSet(m3, "customEvaluationMetricNeedsProba", custom_metric_use_probas)

set_metric(metric, custom_metric, custom_metric_greater_is_better, custom_metric_use_probas) ==
    /\ IF MetricMissing(metric, custom_metric)
       THEN \* raise ValueError("Either metric or custom_metric must be defined")
            UNCHANGED metrics
       ELSE metrics' = SetMetricResult(metrics, metric, custom_metric,
                           custom_metric_greater_is_better, custom_metric_use_probas)
    /\ last' = [op |-> "set_metric", raised |-> MetricMissing(metric, custom_metric),
                metric |-> metric, custom_metric |-> custom_metric,
                custom_metric_greater_is_better |-> custom_metric_greater_is_better,
                custom_metric_use_probas |-> custom_metric_use_probas]
    /\ UNCHANGED <<splitParams, per_feature, weight, calls, taskVars,
                 taskType, algorithms, peerVars, model>>

----------------------------------------------------------------------------
(* DSSMLTaskSettings: feature roles, sample weighting, foreach_feature *)

\* Names passed as feature_name: the features of the task and one it lacks.
FeatureArgs == {"age", "city", "label", "ghost"}
FeatureTypes == {"NUMERIC", "CATEGORY"}

\* self.mltask_settings["preprocessing"]["per_feature"][feature_name]
get_feature_preprocessing(pf, feature_name) == pf[feature_name]

\* A slip: the role is written to every feature.
SetRole_All(pf, feature_name, role) ==
    [k \in DOMAIN pf |-> DictSet(pf[k], "role", role)]

\* self.get_feature_preprocessing(feature_name)["role"] = role
SetRole(pf, feature_name, role) ==
    [pf EXCEPT ![feature_name] = DictSet(get_feature_preprocessing(pf, feature_name), "role", role)]

\* A feature_name that per_feature lacks raises KeyError in
\* get_feature_preprocessing, before anything is written.
reject_feature(feature_name) ==
    /\ calls < MaxFeatureCalls
    /\ calls' = calls + 1
    /\ IF feature_name \in DOMAIN per_feature
       THEN per_feature' = SetRole(per_feature, feature_name, "REJECT")
       ELSE UNCHANGED per_feature
    /\ last' = [op |-> "reject_feature",
                raised |-> (feature_name \notin DOMAIN per_feature),
                feature_name |-> feature_name]
    /\ UNCHANGED <<splitParams, metrics, weight, taskVars,
                 taskType, algorithms, peerVars, model>>

use_feature(feature_name) ==
    /\ calls < MaxFeatureCalls
    /\ calls' = calls + 1
    /\ IF feature_name \in DOMAIN per_feature
       THEN per_feature' = SetRole(per_feature, feature_name, "INPUT")
       ELSE UNCHANGED per_feature
    /\ last' = [op |-> "use_feature",
                raised |-> (feature_name \notin DOMAIN per_feature),
                feature_name |-> feature_name]
    /\ UNCHANGED <<splitParams, metrics, weight, taskVars,
                 taskType, algorithms, peerVars, model>>

\* A slip: the features of role WEIGHT are left as they are.
WeightRolesReset_None(pf) == pf

\* for feature_name in per_feature: if role == 'WEIGHT': role = 'INPUT'
WeightRolesReset(pf) ==
    [k \in DOMAIN pf |->
        IF pf[k]["role"] = "WEIGHT" THEN DictSet(pf[k], "role", "INPUT") ELSE pf[k]]

remove_sample_weighting ==
    /\ calls < MaxFeatureCalls
    /\ calls' = calls + 1
    /\ weight' = DictSet(weight, "weightMethod", "NO_WEIGHTING")
    /\ per_feature' = WeightRolesReset(per_feature)
    /\ last' = [op |-> "remove_sample_weighting", raised |-> FALSE]
    /\ UNCHANGED <<splitParams, metrics, taskVars,
                 taskType, algorithms, peerVars, model>>

use_sample_weighting(feature_name) ==
    LET w1 == DictSet(weight, "weightMethod", "NO_WEIGHTING")
        pf1 == WeightRolesReset(per_feature)
    IN  /\ calls < MaxFeatureCalls
        /\ calls' = calls + 1
        /\ IF feature_name \notin DOMAIN pf1
           THEN \* raise ValueError("Feature %s doesn't exist in this ML task ...")
                /\ weight' = w1
                /\ per_feature' = pf1
           ELSE /\ weight' = DictSet(DictSet(w1, "weightMethod", "SAMPLE_WEIGHT"),
                                     "sampleWeightVariable", feature_name)
                /\ per_feature' = SetRole(pf1, feature_name, "WEIGHT")
        /\ last' = [op |-> "use_sample_weighting",
                    raised |-> (feature_name \notin DOMAIN pf1),
                    feature_name |-> feature_name]
        /\ UNCHANGED <<splitParams, metrics, taskVars,
                 taskType, algorithms, peerVars, model>>

\* The callbacks passed to foreach_feature.  Each is given by what it does to
\* the mapping it receives and by what it returns:
\*   keep              returns its argument untouched
\*   minmax_in_place   sets params["rescaling"] = "MINMAX", returns params
\*   reject_by_copy    returns dict(params, role="REJECT"), argument untouched
\*   scribble          r = dict(params); params["rescaling"] = "MINMAX"; return r
Fns == {"keep", "minmax_in_place", "reject_by_copy", "scribble"}

\* The content of fn's argument object once fn(k, params) has returned.
FnArgAfter(fn, k, params) ==
    IF fn \in {"minmax_in_place", "scribble"}
    THEN DictSet(params, "rescaling", "MINMAX")
    ELSE params

\* The content of the mapping fn(k, params) returns.
FnReturn(fn, k, params) ==
    CASE fn = "keep" -> params
      [] fn = "minmax_in_place" -> FnArgAfter(fn, k, params)
      [] fn = "reject_by_copy" -> DictSet(params, "role", "REJECT")
      [] fn = "scribble" -> params

\* A slip: the stored mapping itself is handed to fn.
DeepCopy_Alias(v) == [content |-> v, shared |-> TRUE]

\* copy.deepcopy(v): a new object with v's content, sharing nothing with v
DeepCopy(v) == [content |-> v, shared |-> FALSE]

\* the two "continue" of the loop
Skipped(v, only_of_type) ==
    \/ v["role"] = "TARGET"
    \/ only_of_type # None /\ v["type"] # only_of_type

\* The loop of foreach_feature over the items of per_feature: which keys fn is
\* called on (once per item of the loop), the new mapping, and the old mapping
\* as it reads afterwards through a reference taken before the call.
ForeachResult(pf, fn, only_of_type) ==
    LET called == {k \in DOMAIN pf : ~Skipped(pf[k], only_of_type)}
        arg == [k \in called |-> DeepCopy(pf[k])]
    IN  [calls_of_fn |-> [k \in DOMAIN pf |-> IF k \in called THEN 1 ELSE 0],
         new_per_feature |-> [k \in called |-> FnReturn(fn, k, arg[k].content)],
         old_per_feature |-> [k \in DOMAIN pf |->
                                IF k \in called /\ arg[k].shared
                                THEN FnArgAfter(fn, k, pf[k])
                                ELSE pf[k]]]

foreach_feature(fn, only_of_type) ==
    LET r == ForeachResult(per_feature, fn, only_of_type)
    IN  /\ calls < MaxFeatureCalls
        /\ calls' = calls + 1
        /\ per_feature' = r.new_per_feature
        /\ last' = [op |-> "foreach_feature", raised |-> FALSE, fn |-> fn,
                    only_of_type |-> only_of_type, before |-> per_feature,
                    calls_of_fn |-> r.calls_of_fn,
                    old_per_feature |-> r.old_per_feature]
        /\ UNCHANGED <<splitParams, metrics, weight, taskVars,
                 taskType, algorithms, peerVars, model>>

----------------------------------------------------------------------------
(* DSSMLTask: the polling waits *)

\* JSON values of a status flag
JTrue == "true"
JFalse == "false"
JNull == "null"

\* time.sleep(0.2) in wait_guess_complete, time.sleep(2) in wait_train_complete
GuessPollMs == 200
TrainPollMs == 2000

\* The status mappings the server may answer: each flag true, false, null or
\* not in the mapping.
StatusValues ==
    { [k \in keys |-> f[k]] :
        keys \in SUBSET {"training", "guessing"},
        f \in [{"training", "guessing"} -> {JTrue, JFalse, JNull}] }

\* The flag of a status as the server sent it
FlagOf(status, key) == IF key \in DOMAIN status THEN status[key] ELSE "missing"

\* A slip: a status without the key counts as complete.
FlagIsFalse_DefaultFalse(status, key) == DictGet(status, key, JFalse) = JFalse

\* status.get(key, "???") == False
FlagIsFalse(status, key) == DictGet(status, key, "???") = JFalse

\* self.client._perform_json("GET", ".../status")
StatusRequest == [method |-> "GET", path |-> "status"]

\* Entering wait_train_complete: while True
wait_train_complete ==
    /\ pc \in {"idle", "returned"}
    /\ pc' = "fetch"
    /\ waitOn' = "training"
    /\ fetched' = <<>>
    /\ sleeps' = <<>>
    /\ UNCHANGED <<settingsVars, requests, srvStatus, calls, last,
                 peerVars, model>>

\* Entering wait_guess_complete: while True
wait_guess_complete ==
    /\ pc \in {"idle", "returned"}
    /\ pc' = "fetch"
    /\ waitOn' = "guessing"
    /\ fetched' = <<>>
    /\ sleeps' = <<>>
    /\ UNCHANGED <<settingsVars, requests, srvStatus, calls, last,
                 peerVars, model>>

\* status = self.get_status(); if status.get(key, "???") == False: break
PollStatus ==
    /\ pc = "fetch"
    /\ Len(requests) < MaxRequests
    /\ requests' = Append(requests, StatusRequest)
    /\ fetched' = Append(fetched, FlagOf(srvStatus, waitOn))
    /\ pc' = IF FlagIsFalse(srvStatus, waitOn) THEN "returned" ELSE "sleep"
    /\ UNCHANGED <<settingsVars, srvStatus, waitOn, sleeps, calls, last,
                 peerVars, model>>

\* A slip: a retry bound of one, the wait gives up after its first sleep.
Sleep_GiveUp ==
    /\ pc = "sleep"
    /\ sleeps' = Append(sleeps, IF waitOn = "training" THEN TrainPollMs ELSE GuessPollMs)
    /\ pc' = "returned"
    /\ UNCHANGED <<settingsVars, requests, srvStatus, waitOn, fetched, calls, last,
                   peerVars, model>>

\* time.sleep(...), then the next turn of the loop
Sleep ==
    /\ pc = "sleep"
    /\ sleeps' = Append(sleeps, IF waitOn = "training" THEN TrainPollMs ELSE GuessPollMs)
    /\ pc' = "fetch"
    /\ UNCHANGED <<settingsVars, requests, srvStatus, waitOn, fetched, calls, last,
                 peerVars, model>>

\* The server's task moves on: its status changes.
ServerChange ==
    /\ \E st \in StatusValues : srvStatus' = st /\ st # srvStatus
    /\ UNCHANGED <<settingsVars, requests, pc, waitOn, fetched, sleeps, calls, last,
                 peerVars, model>>

----------------------------------------------------------------------------
(* DSSMLTask.get_trained_model_details *)

ModelIds == {"m1", "m2"}

\* The lab task handle (self) a wrapper is bound to
ThisTask == [project_key |-> "P", analysis_id |-> "a1", mltask_id |-> "t1"]

\* The details the server may answer: of a prediction model with ROC data,
\* with null ROC data, with a perf that has no rocVizData, without perf; of a
\* clustering model; and of a model whose facts are null.
DetailsResponses ==
    { [trainInfo |-> "ti", userMeta |-> "um", perf |-> [auc |-> "0.9", rocVizData |-> "roc"]],
      [trainInfo |-> "ti", userMeta |-> "um", perf |-> [auc |-> "0.9", rocVizData |-> JNull]],
      [trainInfo |-> "ti", userMeta |-> "um", perf |-> [auc |-> "0.9"]],
      [trainInfo |-> "ti", userMeta |-> "um"],
      [trainInfo |-> "ti", userMeta |-> "um", facts |-> "cf"],
      [trainInfo |-> "ti", userMeta |-> "um", facts |-> JNull] }

\* The snippet the server holds for a model
SnippetOf(id) == [fullModelId |-> id, algorithm |-> "alg", auc |-> "0.9"]

\* GET .../models/<id>/details
DetailsRequest(id) == [method |-> "GET", path |-> "models/details", id |-> id]

\* GET .../models-snippets with body {"modelsIds": [id]}
SnippetRequest(id) == [method |-> "GET", path |-> "models-snippets", modelsIds |-> <<id>>]

\* A slip: a null facts value counts as no facts.
IsClustering_Truthy(ret) == DictGet(ret, "facts", JNull) # JNull

\* if "facts" in ret
IsClustering(ret) == "facts" \in DOMAIN ret

\* DSSTrainedClusteringModelDetails(ret, snippet, mltask=self, mltask_model_id=id)
\* or DSSTrainedPredictionModelDetails(...)
NewDetails(cls, details, snippet, mltask, mltask_model_id) ==
    [class |-> cls, details |-> details, snippet |-> snippet, saved_model |-> None,
     saved_model_version |-> None, mltask |-> mltask, mltask_model_id |-> mltask_model_id]

\* The two requests of get_trained_model_details in the order of the code;
\* ok1 / ok2: whether the transport answers them or raises.
get_trained_model_details(id, ret, ok1, ok2) ==
    LET snippet == SnippetOf(id)
        issued == IF ok1 THEN <<DetailsRequest(id), SnippetRequest(id)>>
                  ELSE <<DetailsRequest(id)>>
    IN  /\ pc \in {"idle", "returned"}
        /\ Len(requests) + Len(issued) <= MaxRequests
        /\ requests' = requests \o issued
        /\ last' = IF ok1 /\ ok2
                   THEN [op |-> "get_trained_model_details", raised |-> FALSE, id |-> id,
                         response |-> ret, issued |-> Len(issued),
                         returned |-> NewDetails(
                             IF IsClustering(ret)
                             THEN "DSSTrainedClusteringModelDetails"
                             ELSE "DSSTrainedPredictionModelDetails",
                             ret, snippet, ThisTask, id)]
                   ELSE [op |-> "get_trained_model_details", raised |-> TRUE, id |-> id,
                         issued |-> Len(issued)]
        /\ model' = IF ok1 /\ ok2 THEN last'.returned ELSE model
        /\ UNCHANGED <<settingsVars, srvStatus, pc, waitOn, fetched, sleeps, calls,
                       peerVars>>

----------------------------------------------------------------------------
(* DSSTrainedPredictionModelDetails.get_roc_curve_data *)

\* No object held yet
NoObject == [class |-> "NoneType"]

\* The value {} that .get("rocVizData", {}) falls back to
JEmptyObject == "{}"

\* self.details.get("perf", {}).get("rocVizData", {})
RocOf(details) ==
    DictGet(DictGet(details, "perf", EmptyDict), "rocVizData", JEmptyObject)

\* get_roc_curve_data on the prediction wrapper the caller holds
get_roc_curve_data ==
    LET roc == RocOf(model.details)
    IN  /\ model.class = "DSSTrainedPredictionModelDetails"
        /\ pc \in {"idle", "returned"}
        /\ last' = IF roc = JNull
                   THEN [op |-> "get_roc_curve_data", raised |-> TRUE,
                         error |-> "ValueError"]
                   ELSE [op |-> "get_roc_curve_data", raised |-> FALSE,
                         returned |-> roc]
        /\ UNCHANGED <<settingsVars, taskVars, calls, peerVars, model>>

----------------------------------------------------------------------------
(* DSSMLTaskSettings.set_algorithm_enabled, save; DSSMLTask.get_settings *)

TaskTypes == {"PREDICTION", "CLUSTERING"}

\* DSSPredictionMLTaskSettings.algorithm_remap
PredictionRemap ==
    [SVC_CLASSIFICATION |-> "svc_classifier",
     SGD_CLASSIFICATION |-> "sgd_classifier",
     SPARKLING_DEEP_LEARNING |-> "deep_learning_sparkling",
     SPARKLING_GBM |-> "gbm_sparkling",
     SPARKLING_RF |-> "rf_sparkling",
     SPARKLING_GLM |-> "glm_sparkling",
     SPARKLING_NB |-> "nb_sparkling",
     XGBOOST_CLASSIFICATION |-> "xgboost",
     XGBOOST_REGRESSION |-> "xgboost",
     MLLIB_LOGISTIC_REGRESSION |-> "mllib_logit",
     MLLIB_LINEAR_REGRESSION |-> "mllib_linreg",
     MLLIB_RANDOM_FOREST |-> "mllib_rf"]

\* DSSClusteringMLTaskSettings.algorithm_remap
ClusteringRemap == [DBSCAN |-> "db_scan_clustering"]

\* The class get_settings wraps the fetched mapping in
SettingsClass(settings) ==
    IF settings["taskType"] = "PREDICTION"
    THEN "DSSPredictionMLTaskSettings"
    ELSE "DSSClusteringMLTaskSettings"

\* self.__class__.algorithm_remap
algorithm_remap(cls) ==
    IF cls = "DSSPredictionMLTaskSettings" THEN PredictionRemap ELSE ClusteringRemap

\* Names passed as algorithm_name
AlgorithmArgs == {"RANDOM_FOREST_CLASSIFICATION", "SVC_CLASSIFICATION", "DBSCAN"}

\* str.lower() on the names that reach it
Lower(name) ==
    CASE name = "RANDOM_FOREST_CLASSIFICATION" -> "random_forest_classification"
      [] name = "SVC_CLASSIFICATION" -> "svc_classification"
      [] name = "DBSCAN" -> "dbscan"
      [] OTHER -> name

\* get_algorithm_settings: the key of modeling the name stands for
AlgorithmKey(cls, algorithm_name) ==
    Lower(IF algorithm_name \in DOMAIN algorithm_remap(cls)
          THEN algorithm_remap(cls)[algorithm_name]
          ELSE algorithm_name)

\* self.get_algorithm_settings(algorithm_name)["enabled"] = enabled
SetEnabled(algos, key, enabled) ==
    [algos EXCEPT ![key] = DictSet(algos[key], "enabled", enabled)]

\* A name whose key modeling lacks raises KeyError before anything is written.
set_algorithm_enabled(algorithm_name, enabled) ==
    LET key == AlgorithmKey(SettingsClass([taskType |-> taskType]), algorithm_name)
    IN  /\ calls < MaxFeatureCalls
        /\ calls' = calls + 1
        /\ IF key \in DOMAIN algorithms
           THEN algorithms' = SetEnabled(algorithms, key, enabled)
           ELSE UNCHANGED algorithms
        /\ last' = [op |-> "set_algorithm_enabled",
                    raised |-> (key \notin DOMAIN algorithms),
                    algorithm_name |-> algorithm_name, enabled |-> enabled]
        /\ UNCHANGED <<splitParams, metrics, per_feature, weight, taskType, taskVars,
                       peerVars, model>>

\* mltask_settings["modeling"]: the metrics and one entry per algorithm
ModelingOf(m, algos) ==
    [k \in {"metrics"} \cup DOMAIN algos |-> IF k = "metrics" THEN m ELSE algos[k]]

\* The entries of mltask_settings["modeling"] other than the metrics
AlgorithmsOf(modeling) ==
    [k \in DOMAIN modeling \ {"metrics"} |-> modeling[k]]

\* self.mltask_settings: the whole mapping the caller holds
LocalSettings ==
    [taskType |-> taskType,
     splitParams |-> splitParams,
     preprocessing |-> [per_feature |-> per_feature],
     modeling |-> ModelingOf(metrics, algorithms),
     weight |-> weight]

\* GET .../settings
SettingsGet == [method |-> "GET", path |-> "settings"]

\* POST .../settings with a body
SettingsPost(body) == [method |-> "POST", path |-> "settings", body |-> body]

\* A slip: the weight part is sent as a new task has it, not as it is held.
SaveBody_StaleWeight(settings) ==
    [settings EXCEPT !["weight"] =
        [weightMethod |-> "NO_WEIGHTING", sampleWeightVariable |-> None]]

\* A slip: the body says of every rejected feature that it is an input.
SaveBody_RejectsDropped(settings) ==
    LET pf == settings["preprocessing"]["per_feature"]
    IN  [settings EXCEPT !["preprocessing"]["per_feature"] =
            [k \in DOMAIN pf |->
                IF pf[k]["role"] = "REJECT" THEN DictSet(pf[k], "role", "INPUT")
                ELSE pf[k]]]

\* save: body = self.mltask_settings
SaveBody(settings) == settings

\* The server's handling of POST .../settings: the body replaces the settings
\* it holds.
ServerPostSettings(held, body) == body

\* DSSMLTask.get_settings by the caller: the mapping fetched replaces the one
\* held.
get_settings ==
    /\ pc \in {"idle", "returned"}
    /\ Len(requests) < MaxRequests
    /\ requests' = Append(requests, SettingsGet)
    /\ taskType' = server["taskType"]
    /\ splitParams' = server["splitParams"]
    /\ per_feature' = server["preprocessing"]["per_feature"]
    /\ metrics' = server["modeling"]["metrics"]
    /\ algorithms' = AlgorithmsOf(server["modeling"])
    /\ weight' = server["weight"]
    /\ last' = [op |-> "get_settings", raised |-> FALSE, caller |-> "self",
                class |-> SettingsClass(server)]
    /\ UNCHANGED <<srvStatus, pc, waitOn, fetched, sleeps, calls, peerVars, model>>

\* DSSMLTaskSettings.save by the caller
save ==
    /\ pc \in {"idle", "returned"}
    /\ Len(requests) < MaxRequests
    /\ requests' = Append(requests, SettingsPost(SaveBody(LocalSettings)))
    /\ server' = ServerPostSettings(server, SaveBody(LocalSettings))
    /\ last' = [op |-> "save", raised |-> FALSE, caller |-> "self"]
    /\ UNCHANGED <<settingsVars, srvStatus, pc, waitOn, fetched, sleeps, calls,
                   peer, model>>

\* DSSMLTask.get_settings by another caller of the same task
peer_get_settings ==
    /\ Len(requests) < MaxRequests
    /\ requests' = Append(requests, SettingsGet)
    /\ peer' = [class |-> SettingsClass(server), mltask_settings |-> server]
    /\ last' = [op |-> "get_settings", raised |-> FALSE, caller |-> "peer",
                class |-> SettingsClass(server)]
    /\ UNCHANGED <<settingsVars, srvStatus, pc, waitOn, fetched, sleeps, calls,
                   server, model>>

\* reject_feature by the other caller on the mapping it holds
peer_reject_feature(feature_name) ==
    LET pf == peer.mltask_settings["preprocessing"]["per_feature"]
    IN  /\ peer.class # "NoneType"
        /\ peer' = IF feature_name \in DOMAIN pf
                   THEN [peer EXCEPT !.mltask_settings["preprocessing"]["per_feature"] =
                            SetRole(pf, feature_name, "REJECT")]
                   ELSE peer
        /\ last' = [op |-> "reject_feature", raised |-> (feature_name \notin DOMAIN pf),
                    caller |-> "peer", feature_name |-> feature_name]
        /\ UNCHANGED <<settingsVars, taskVars, calls, server, model>>

\* set_algorithm_enabled by the other caller on the mapping it holds
peer_set_algorithm_enabled(algorithm_name, enabled) ==
    LET algos == AlgorithmsOf(peer.mltask_settings["modeling"])
        key == AlgorithmKey(peer.class, algorithm_name)
    IN  /\ peer.class # "NoneType"
        /\ peer' = IF key \in DOMAIN algos
                   THEN [peer EXCEPT !.mltask_settings["modeling"][key] =
                            DictSet(@, "enabled", enabled)]
                   ELSE peer
        /\ last' = [op |-> "set_algorithm_enabled", raised |-> (key \notin DOMAIN algos),
                    caller |-> "peer", algorithm_name |-> algorithm_name,
                    enabled |-> enabled]
        /\ UNCHANGED <<settingsVars, taskVars, calls, server, model>>

\* save by the other caller
peer_save ==
    /\ peer.class # "NoneType"
    /\ Len(requests) < MaxRequests
    /\ requests' = Append(requests, SettingsPost(SaveBody(peer.mltask_settings)))
    /\ server' = ServerPostSettings(server, SaveBody(peer.mltask_settings))
    /\ last' = [op |-> "save", raised |-> FALSE, caller |-> "peer"]
    /\ UNCHANGED <<settingsVars, srvStatus, pc, waitOn, fetched, sleeps, calls,
                   peer, model>>

----------------------------------------------------------------------------
(* The settings as fetched from the server for a new prediction task *)

InitSplitParams ==
    [ttPolicy |-> "SPLIT_SINGLE_DATASET", ssdTrainingRatio |-> 80, kfold |-> FALSE,
     nFolds |-> MaxFolds, ssdSelection |-> "sel0", ssdDatasetSmartName |-> "main"]

InitMetrics ==
    [evaluationMetric |-> "ACCURACY", customEvaluationMetricCode |-> None,
     customEvaluationMetricGIB |-> TRUE, customEvaluationMetricNeedsProba |-> FALSE]

InitPerFeature ==
    [age |-> [role |-> "INPUT", type |-> "NUMERIC", rescaling |-> "AVGSTD"],
     city |-> [role |-> "INPUT", type |-> "CATEGORY", rescaling |-> "NONE"],
     label |-> [role |-> "TARGET", type |-> "CATEGORY", rescaling |-> "NONE"]]

InitWeight == [weightMethod |-> "NO_WEIGHTING", sampleWeightVariable |-> None]

\* The algorithm entries of modeling for a task of each type
InitAlgorithms(tt) ==
    IF tt = "PREDICTION"
    THEN [random_forest_classification |-> [enabled |-> TRUE],
          svc_classifier |-> [enabled |-> FALSE]]
    ELSE [kmeans_clustering |-> [enabled |-> TRUE],
          db_scan_clustering |-> [enabled |-> FALSE]]

\* The status of a task that has been created and is guessing its settings
InitStatus == [guessing |-> JTrue, training |-> JFalse]

\* A settings object just fetched for a task of type tt: the mapping it holds
\* is the one the server holds.
InitTask(tt) ==
    /\ splitParams = InitSplitParams
    /\ metrics = InitMetrics
    /\ per_feature = InitPerFeature
    /\ weight = InitWeight
    /\ taskType = tt
    /\ algorithms = InitAlgorithms(tt)
    /\ server = [taskType |-> tt,
                 splitParams |-> InitSplitParams,
                 preprocessing |-> [per_feature |-> InitPerFeature],
                 modeling |-> ModelingOf(InitMetrics, InitAlgorithms(tt)),
                 weight |-> InitWeight]
    /\ peer = NoObject
    /\ model = NoObject
    /\ requests = <<>>
    /\ srvStatus = InitStatus
    /\ pc = "idle"
    /\ waitOn = "training"
    /\ fetched = <<>>
    /\ sleeps = <<>>
    /\ calls = 0
    /\ last = [op |-> "none", raised |-> FALSE]

Init == InitTask("PREDICTION")

\* The same for a task of either type
InitAnyTask == \E tt \in TaskTypes : InitTask(tt)

RandomStep ==
    \E r \in TrainRatios, s \in SelectionArgs, d \in DatasetArgs :
        set_split_random(r, s, d)

KfoldStep ==
    \E n \in FoldArgs, s \in SelectionArgs, d \in DatasetArgs :
        set_split_kfold(n, s, d)

ExplicitStep ==
    \E o \in ExplicitOptionalArgs, d \in DatasetArgs, td \in DatasetArgs :
        set_split_explicit(o[1], o[2], d, td, o[3], o[4])

NextSplit == RandomStep \/ KfoldStep \/ ExplicitStep

SpecSplit == Init /\ [][NextSplit]_vars

MetricStep ==
    \E m \in MetricArgs, c \in CustomMetricArgs, gib \in BOOLEAN, probas \in BOOLEAN :
        set_metric(m, c, gib, probas)

NextMetric == MetricStep

SpecMetric == Init /\ [][NextMetric]_vars

RejectStep == \E f \in FeatureArgs : reject_feature(f)

UseStep == \E f \in FeatureArgs : use_feature(f)

UseWeightStep == \E f \in FeatureArgs : use_sample_weighting(f)

ForeachStep ==
    \E fn \in Fns, t \in FeatureTypes \cup {None} : foreach_feature(fn, t)

NextFeatures ==
    RejectStep \/ UseStep \/ UseWeightStep \/ remove_sample_weighting \/ ForeachStep

SpecFeatures == Init /\ [][NextFeatures]_vars

\* The setters that touch sample weighting and roles, without callbacks
NextWeighting ==
    RejectStep \/ UseStep \/ UseWeightStep \/ remove_sample_weighting

SpecWeighting == Init /\ [][NextWeighting]_vars

NextWait ==
    wait_train_complete \/ wait_guess_complete \/ PollStatus \/ Sleep \/ ServerChange

SpecWait == Init /\ [][NextWait]_vars

\* The records of requests, fetched flags and sleeps are a window on the run:
\* when the window is full during a wait it is emptied, so that a loop that
\* runs forever can be followed in a finite graph.  Nothing of the client or
\* of the server changes.
ForgetHistory ==
    /\ pc = "fetch"
    /\ Len(requests) >= MaxRequests
    /\ requests' = <<>>
    /\ fetched' = <<>>
    /\ sleeps' = <<>>
    /\ UNCHANGED <<settingsVars, srvStatus, pc, waitOn, calls, last, peerVars, model>>

NextWaitFair == NextWait \/ ForgetHistory

\* The loop of a wait runs on its own thread with nothing to block it but
\* the calls it makes: a get_status that is due is answered, and a sleep
\* that is due ends.
SpecWaitFair ==
    /\ Init
    /\ [][NextWaitFair]_vars
    /\ WF_vars(PollStatus)
    /\ WF_vars(Sleep)
    /\ WF_vars(ForgetHistory)

DetailsStep ==
    \E id \in ModelIds, ret \in DetailsResponses, ok1 \in BOOLEAN, ok2 \in BOOLEAN :
        get_trained_model_details(id, ret, ok1, ok2)

NextDetails == DetailsStep

SpecDetails == Init /\ [][NextDetails]_vars

\* A script that calls setters of every kind and saves at any point; each
\* setter is called with one or two of its argument values.
SaveSetterStep ==
    \/ (calls < MaxSaveCalls /\ set_split_random(50, NoneArg, None))
    \/ (calls < MaxSaveCalls /\ set_split_kfold(MaxFolds, RawArg("sel1"), "d1"))
    \/ (calls < MaxSaveCalls
            /\ set_split_explicit(NoneArg, NoneArg, "d1", "d2", NoneArg, NoneArg))
    \/ (calls < MaxSaveCalls /\ set_metric("AUC", None, TRUE, FALSE))
    \/ (calls < MaxSaveCalls /\ reject_feature("age"))
    \/ (calls < MaxSaveCalls /\ use_feature("age"))
    \/ (calls < MaxSaveCalls /\ use_sample_weighting("city"))
    \/ (calls < MaxSaveCalls /\ remove_sample_weighting)
    \/ (calls < MaxSaveCalls /\ foreach_feature("minmax_in_place", "NUMERIC"))
    \/ (calls < MaxSaveCalls
            /\ \E a \in AlgorithmArgs, e \in BOOLEAN : set_algorithm_enabled(a, e))

NextSave == SaveSetterStep \/ save

SpecSave == InitAnyTask /\ [][NextSave]_vars

\* Two callers of the same task: each fetches the settings, changes the
\* mapping it holds and saves, in any order.
NextRace ==
    \/ get_settings
    \/ reject_feature("age")
    \/ set_algorithm_enabled("SVC_CLASSIFICATION", TRUE)
    \/ save
    \/ peer_get_settings
    \/ peer_reject_feature("age")
    \/ peer_set_algorithm_enabled("SVC_CLASSIFICATION", TRUE)
    \/ peer_save

SpecRace == Init /\ [][NextRace]_vars

\* A caller fetching model details and reading the ROC data of the one held
NextRoc == DetailsStep \/ get_roc_curve_data

SpecRoc == Init /\ [][NextRoc]_vars

----------------------------------------------------------------------------
(* Properties of the split-parameter handler *)

Absent == "<absent>"

SplitOps == {"set_split_random", "set_split_kfold", "set_split_explicit"}

\* This step is a call of the split setter op.
SplitCalled(op) == calls' = calls + 1 /\ last'.op = op

\* The selection / filter stored under one of the efsd/eftd split mappings.
StoredIn(sp, key, field) ==
    IF key \in DOMAIN sp THEN DictGet(sp[key], field, Absent) ELSE Absent

C2_ModesExclusive ==
    (last.op \in SplitOps /\ ~last.raised) =>
        /\ (splitParams["kfold"] = TRUE => last.op = "set_split_kfold")
        /\ (splitParams["ttPolicy"] = "SPLIT_SINGLE_DATASET"
                <=> last.op \in {"set_split_random", "set_split_kfold"})

\* C3: in every split setter a selection or filter argument passed as None
\* is not changed: the value stored before the call (ssdSelection,
\* ssdDatasetSmartName, or the train/test selection or filter of the explicit
\* mode the call selects) is the value stored after it.
C3_NoneArgsUnchanged ==
    [][(\E op \in SplitOps : SplitCalled(op)) /\ ~last'.raised =>
        IF last'.op \in {"set_split_random", "set_split_kfold"}
        THEN /\ last'.selection = NoneArg =>
                    DictGet(splitParams', "ssdSelection", Absent)
                        = DictGet(splitParams, "ssdSelection", Absent)
             /\ last'.dataset_name = None =>
                    DictGet(splitParams', "ssdDatasetSmartName", Absent)
                        = DictGet(splitParams, "ssdDatasetSmartName", Absent)
        ELSE LET single == splitParams'["ttPolicy"] = "EXPLICIT_FILTERING_SINGLE_DATASET"
                 trainKey == IF single THEN "efsdTrain" ELSE "eftdTrain"
                 testKey == IF single THEN "efsdTest" ELSE "eftdTest"
             IN  /\ last'.train_selection = NoneArg =>
                        StoredIn(splitParams', trainKey, "selection")
                            = StoredIn(splitParams, trainKey, "selection")
                 /\ last'.test_selection = NoneArg =>
                        StoredIn(splitParams', testKey, "selection")
                            = StoredIn(splitParams, testKey, "selection")
                 /\ last'.train_filter = NoneArg =>
                        StoredIn(splitParams', trainKey, "filter")
                            = StoredIn(splitParams, trainKey, "filter")
                 /\ last'.test_filter = NoneArg =>
                        StoredIn(splitParams', testKey, "filter")
                            = StoredIn(splitParams, testKey, "filter")
    ]_vars

----------------------------------------------------------------------------
(* Properties of set_metric *)

\* C4 as stated: set_metric requires exactly one of metric and custom_metric;
\* a call supplying neither, or both, raises, and a call supplying exactly one
\* succeeds.
C4_ExactlyOne ==
    last.op = "set_metric" =>
        (last.raised <=> ~((last.metric = None) # (last.custom_metric = None)))

\* C4 as amended: set_metric requires at least one of metric and
\* custom_metric; a call supplying neither raises, and a call supplying one of
\* them or both succeeds, custom_metric taking precedence when both are given.
C4_AtLeastOne ==
    last.op = "set_metric" =>
        /\ last.raised <=> (last.metric = None /\ last.custom_metric = None)
        /\ (~last.raised /\ last.metric # None /\ last.custom_metric # None) =>
                metrics["evaluationMetric"] = "CUSTOM"

\* A call supplying both a metric and a custom metric has succeeded.
C4_Witness ==
    /\ last.op = "set_metric"
    /\ last.metric = "AUC"
    /\ last.custom_metric = "code1"
    /\ ~last.raised
    /\ metrics["customEvaluationMetricCode"] = "code1"

\* C5: set_metric writes the four fields of modeling.metrics all or nothing.
\* A successful call with only metric = m sets evaluationMetric = m and
\* customEvaluationMetricCode = None; one with custom_metric = c sets
\* evaluationMetric = CUSTOM and customEvaluationMetricCode = c; both set
\* customEvaluationMetricGIB and customEvaluationMetricNeedsProba to the given
\* flags; a call that raises leaves all four fields as they were.
C5_MetricFields ==
    [][last'.op = "set_metric" =>
        IF last'.raised
        THEN metrics' = metrics
        ELSE /\ last'.custom_metric = None =>
                    /\ metrics'["evaluationMetric"] = last'.metric
                    /\ metrics'["customEvaluationMetricCode"] = None
             /\ last'.custom_metric # None =>
                    /\ metrics'["evaluationMetric"] = "CUSTOM"
                    /\ metrics'["customEvaluationMetricCode"] = last'.custom_metric
             /\ metrics'["customEvaluationMetricGIB"]
                    = last'.custom_metric_greater_is_better
             /\ metrics'["customEvaluationMetricNeedsProba"]
                    = last'.custom_metric_use_probas
             /\ DOMAIN metrics' = DOMAIN metrics
    ]_vars

\* A call that raises has followed one that stored a custom metric.
C5_Witness ==
    /\ last.op = "set_metric"
    /\ last.raised
    /\ metrics["evaluationMetric"] = "CUSTOM"
    /\ metrics["customEvaluationMetricCode"] = "code2"
    /\ metrics["customEvaluationMetricGIB"] = FALSE
    /\ metrics["customEvaluationMetricNeedsProba"] = TRUE

----------------------------------------------------------------------------
(* Properties of the feature setters *)

\* This step is a call of the feature setter op.
FeatureCalled(op) == calls' = calls + 1 /\ last'.op = op

\* C6: use_sample_weighting(f) with f not a key of per_feature raises, and
\* leaves exactly the state of the reset step: weightMethod is NO_WEIGHTING,
\* every feature that had role WEIGHT has role INPUT (the others are as they
\* were), sampleWeightVariable is as it was, and no feature f has been added.
C6_UnknownWeightFeature ==
    [][(FeatureCalled("use_sample_weighting")
            /\ last'.feature_name \notin DOMAIN per_feature) =>
        /\ last'.raised
        /\ weight'["weightMethod"] = "NO_WEIGHTING"
        /\ weight'["sampleWeightVariable"] = weight["sampleWeightVariable"]
        /\ DOMAIN weight' = DOMAIN weight
        /\ DOMAIN per_feature' = DOMAIN per_feature
        /\ \A k \in DOMAIN per_feature :
              /\ per_feature'[k]["role"] =
                    IF per_feature[k]["role"] = "WEIGHT" THEN "INPUT"
                    ELSE per_feature[k]["role"]
              /\ per_feature'[k]["type"] = per_feature[k]["type"]
              /\ per_feature'[k]["rescaling"] = per_feature[k]["rescaling"]
    ]_vars

\* use_sample_weighting on an unknown name has undone an earlier weighting.
C6_Witness ==
    /\ last.op = "use_sample_weighting"
    /\ last.feature_name = "ghost"
    /\ last.raised
    /\ weight["sampleWeightVariable"] = "age"
    /\ weight["weightMethod"] = "NO_WEIGHTING"
    /\ per_feature["age"]["role"] = "INPUT"

\* C7: for an existing feature f, reject_feature(f) makes the role read back
\* through get_feature_preprocessing(f) REJECT and use_feature(f) makes it
\* INPUT; the call leaves every other feature, and every other field of f,
\* unchanged.
C7_RoleRoundTrip ==
    [][((FeatureCalled("reject_feature") \/ FeatureCalled("use_feature"))
            /\ last'.feature_name \in DOMAIN per_feature) =>
        LET f == last'.feature_name
        IN  /\ ~last'.raised
            /\ DOMAIN per_feature' = DOMAIN per_feature
            /\ get_feature_preprocessing(per_feature', f)["role"] =
                    IF last'.op = "reject_feature" THEN "REJECT" ELSE "INPUT"
            /\ \A k \in DOMAIN per_feature \ {f} : per_feature'[k] = per_feature[k]
            /\ DOMAIN per_feature'[f] = DOMAIN per_feature[f]
            /\ \A x \in DOMAIN per_feature[f] \ {"role"} :
                    per_feature'[f][x] = per_feature[f][x]
    ]_vars

\* A rejected feature has been taken back as input beside a rejected one.
C7_Witness ==
    /\ last.op = "use_feature"
    /\ last.feature_name = "age"
    /\ ~last.raised
    /\ per_feature["age"]["role"] = "INPUT"
    /\ per_feature["city"]["role"] = "REJECT"

\* C8: foreach_feature(fn, only_of_type) calls fn exactly once on each
\* feature whose role is not TARGET and, when only_of_type is not None, whose
\* type is only_of_type, and on no other feature; the value then stored for
\* each such feature is what fn returned for it; fn receives a copy, so what
\* it does to its argument does not alter the mapping stored before.
C8_ForeachFeature ==
    last.op = "foreach_feature" =>
        /\ \A k \in DOMAIN last.before :
              LET v == last.before[k]
                  selected == /\ v["role"] # "TARGET"
                              /\ (last.only_of_type = None
                                    \/ v["type"] = last.only_of_type)
              IN  /\ last.calls_of_fn[k] = IF selected THEN 1 ELSE 0
                  /\ selected =>
                        /\ k \in DOMAIN per_feature
                        /\ per_feature[k] = FnReturn(last.fn, k, v)
        /\ last.old_per_feature = last.before

\* A callback that writes to its argument has been applied to the numeric
\* features only, with a TARGET and a feature of another type to skip.
C8_Witness ==
    /\ last.op = "foreach_feature"
    /\ last.fn = "minmax_in_place"
    /\ last.only_of_type = "NUMERIC"
    /\ last.calls_of_fn = [age |-> 1, city |-> 0, label |-> 0]
    /\ per_feature["age"]["rescaling"] = "MINMAX"
    /\ last.before["age"]["rescaling"] = "AVGSTD"

\* The features of per_feature whose role is WEIGHT
WeightFeatures == {k \in DOMAIN per_feature : per_feature[k]["role"] = "WEIGHT"}

\* The feature named by weight.sampleWeightVariable exists and has role WEIGHT.
WeightVariableHasRole ==
    /\ weight["sampleWeightVariable"] \in DOMAIN per_feature
    /\ per_feature[weight["sampleWeightVariable"]]["role"] = "WEIGHT"

\* C15 (as stated): after any sequence of use_sample_weighting,
\* remove_sample_weighting, reject_feature and use_feature calls, at most one
\* feature has role WEIGHT, and weightMethod is SAMPLE_WEIGHT if and only if
\* the feature named by sampleWeightVariable exists and has role WEIGHT.
C15_WeightingIff ==
    /\ Cardinality(WeightFeatures) <= 1
    /\ weight["weightMethod"] = "SAMPLE_WEIGHT" <=> WeightVariableHasRole

\* C15 (amended): after any such sequence at most one feature has role
\* WEIGHT, and a feature of role WEIGHT is the one named by
\* sampleWeightVariable with weightMethod SAMPLE_WEIGHT; the converse does
\* not hold, since reject_feature and use_feature change the role of the
\* weight feature and leave weight as it was.
C15_WeightRoleImpliesMethod ==
    /\ Cardinality(WeightFeatures) <= 1
    /\ \A k \in WeightFeatures :
          /\ weight["weightMethod"] = "SAMPLE_WEIGHT"
          /\ weight["sampleWeightVariable"] = k
    /\ weight["weightMethod"] \in {"NO_WEIGHTING", "SAMPLE_WEIGHT"}
    /\ weight["weightMethod"] = "NO_WEIGHTING" => WeightFeatures = {}

\* The weight has been moved from one feature to another, the third call
\* being a use_sample_weighting that found a feature of role WEIGHT to reset.
C15_Witness ==
    /\ calls = 3
    /\ last.op = "use_sample_weighting"
    /\ last.feature_name = "city"
    /\ WeightFeatures = {"city"}
    /\ per_feature["age"]["role"] = "REJECT"
    /\ weight = [weightMethod |-> "SAMPLE_WEIGHT", sampleWeightVariable |-> "city"]

\* A feature of the mapping before the call that foreach_feature skips
SkippedBefore(k) ==
    \/ last.before[k]["role"] = "TARGET"
    \/ (last.only_of_type # None /\ last.before[k]["type"] # last.only_of_type)

\* C16: after foreach_feature(fn, only_of_type) the key set of per_feature
\* is the same as before the call, and every feature that was skipped (role
\* TARGET, or type different from only_of_type) is still present with its
\* settings unchanged.
C16_SkippedKept ==
    last.op = "foreach_feature" =>
        /\ DOMAIN per_feature = DOMAIN last.before
        /\ \A k \in DOMAIN last.before :
              SkippedBefore(k) =>
                  /\ k \in DOMAIN per_feature
                  /\ per_feature[k] = last.before[k]

----------------------------------------------------------------------------
(* Properties of save *)

SetterOps ==
    {"set_split_random", "set_split_kfold", "set_split_explicit", "set_metric",
     "reject_feature", "use_feature", "use_sample_weighting",
     "remove_sample_weighting", "foreach_feature", "set_algorithm_enabled"}

\* C11: a setter call (failed or not) issues no request and leaves the
\* server's settings as they are; save issues one POST whose body is the
\* whole local mapping as it is at that moment, after which the server's
\* settings equal that mapping, every key of it, and the local mapping is
\* unchanged.
C11_PersistOnlyOnSave ==
    [][IF last'.op = "save"
       THEN /\ requests' = Append(requests, SettingsPost(LocalSettings))
            /\ server' = LocalSettings
            /\ DOMAIN server' = {"taskType", "splitParams", "preprocessing",
                                 "modeling", "weight"}
            /\ UNCHANGED settingsVars
       ELSE /\ last'.op \in SetterOps
            /\ requests' = requests
            /\ server' = server
    ]_vars

\* Two saves have been made, the second one after setters that changed the
\* weight, the roles and an algorithm: the server holds the second body.
C11_Witness ==
    /\ last.op = "save"
    /\ taskType = "PREDICTION"
    /\ Len(requests) = 2
    /\ requests[1].body # requests[2].body
    /\ server = LocalSettings
    /\ server = requests[2].body
    /\ server["weight"]["weightMethod"] = "SAMPLE_WEIGHT"
    /\ server["modeling"]["svc_classifier"]["enabled"] = TRUE
    /\ server["splitParams"] = InitSplitParams

\* C14: with two callers of one task, every save succeeds whatever the
\* server holds by then and makes the server's settings the whole mapping of
\* the caller that saves, so the server always holds the mapping of the save
\* that ran last; get_settings gives the caller the server's settings of that
\* moment; and no step of one caller changes the mapping the other holds.
\* A change saved by one caller is thus lost when the other, having fetched
\* before that save, saves after it.
C14_LastSaveWins ==
    [][LET by == DictGet(last', "caller", "self")
       IN  /\ by = "self" => peer' = peer
           /\ by = "peer" => UNCHANGED settingsVars
           /\ IF last'.op = "save"
              THEN /\ ~last'.raised
                   /\ server' = IF by = "self" THEN LocalSettings
                                 ELSE peer.mltask_settings
                   /\ requests' = Append(requests, SettingsPost(server'))
                   /\ UNCHANGED <<settingsVars, peer>>
              ELSE server' = server
           /\ last'.op = "get_settings" =>
                 /\ requests' = Append(requests, SettingsGet)
                 /\ IF by = "self" THEN LocalSettings' = server
                    ELSE peer'.mltask_settings = server
    ]_vars

\* Both callers have fetched the settings; the caller has rejected age and
\* saved, then the other caller has enabled an algorithm and saved: the
\* server holds the other caller's mapping, in which age is still an input.
C14_Witness ==
    /\ Len(requests) = 4
    /\ peer.class = "DSSPredictionMLTaskSettings"
    /\ requests[1] = SettingsGet
    /\ requests[2] = SettingsGet
    /\ requests[3] = SettingsPost(LocalSettings)
    /\ requests[4] = SettingsPost(peer.mltask_settings)
    /\ last.op = "save"
    /\ last.caller = "peer"
    /\ per_feature["age"]["role"] = "REJECT"
    /\ server = peer.mltask_settings
    /\ server["preprocessing"]["per_feature"]["age"]["role"] = "INPUT"
    /\ server["modeling"]["svc_classifier"]["enabled"] = TRUE
    /\ algorithms["svc_classifier"]["enabled"] = FALSE

----------------------------------------------------------------------------
(* Properties of the trained-model detail wrappers *)

\* The details of the wrapper held have ROC visualization data: a perf with a
\* rocVizData that is not null.
HasRoc(details) ==
    /\ "perf" \in DOMAIN details
    /\ "rocVizData" \in DOMAIN details["perf"]
    /\ details["perf"]["rocVizData"] # JNull

\* C12: get_roc_curve_data raises ValueError whenever the details hold no
\* ROC visualization data (perf absent, perf without rocVizData, or
\* rocVizData null), and otherwise returns the stored rocVizData.
C12_RocOrValueError ==
    last.op = "get_roc_curve_data" =>
        IF HasRoc(model.details)
        THEN ~last.raised /\ last.returned = model.details["perf"]["rocVizData"]
        ELSE last.raised /\ last.error = "ValueError"

----------------------------------------------------------------------------
(* Properties of the task handle *)

\* C9: get_trained_model_details(id) returns a clustering detail wrapper if
\* and only if the details the server answered hold the key facts, and a
\* prediction detail wrapper otherwise; the details request is issued before
\* the snippet request for the same id, and the wrapper is bound to the lab
\* task and to that model id.
C9_DetailsDispatch ==
    last.op = "get_trained_model_details" =>
        LET n == Len(requests)
        IN  /\ last.issued \in {1, 2}
            /\ n >= last.issued
            /\ requests[n - last.issued + 1] = DetailsRequest(last.id)
            /\ last.issued = 2 => requests[n] = SnippetRequest(last.id)
            /\ ~last.raised =>
                  /\ last.issued = 2
                  /\ last.returned.class =
                        IF "facts" \in DOMAIN last.response
                        THEN "DSSTrainedClusteringModelDetails"
                        ELSE "DSSTrainedPredictionModelDetails"
                  /\ last.returned.details = last.response
                  /\ last.returned.mltask = ThisTask
                  /\ last.returned.mltask_model_id = last.id
                  /\ last.returned.saved_model = None

\* A second call has returned a clustering wrapper for details whose facts
\* are null.
C9_Witness ==
    /\ last.op = "get_trained_model_details"
    /\ ~last.raised
    /\ last.id = "m2"
    /\ "facts" \in DOMAIN last.response
    /\ last.response["facts"] = JNull
    /\ last.returned.class = "DSSTrainedClusteringModelDetails"
    /\ Len(requests) = 4

\* C10: wait_train_complete (wait_guess_complete, on the guessing flag)
\* returns exactly at the first fetched status whose flag is false: it has
\* not returned while every status fetched has the flag true or missing, it
\* fetches no status after the first false one, and it sleeps exactly once
\* between two consecutive fetches; so for a status sequence going true then
\* false it fetches at least twice.
C10_WaitReturnsAtFirstFalse ==
    LET n == Len(fetched)
    IN  /\ pc = "returned" =>
              /\ n >= 1
              /\ fetched[n] = JFalse
              /\ Len(sleeps) = n - 1
        /\ \A i \in 1..n : fetched[i] = JFalse => (i = n /\ pc = "returned")
        /\ pc = "fetch" => Len(sleeps) = n
        /\ pc = "sleep" => (n >= 1 /\ Len(sleeps) = n - 1)
        /\ pc = "idle" => n = 0
        /\ \A i \in 1..Len(sleeps) :
              sleeps[i] = IF waitOn = "training" THEN TrainPollMs ELSE GuessPollMs
        /\ (pc = "returned" /\ fetched[1] = JTrue) => n >= 2

\* wait_train_complete has returned on a status sequence going true, false.
C10_Witness ==
    /\ pc = "returned"
    /\ waitOn = "training"
    /\ fetched = <<JTrue, JFalse>>
    /\ sleeps = <<TrainPollMs>>

\* A wait_*_complete call is in progress.
Waiting == pc \in {"fetch", "sleep"}

\* The server's status has the flag the wait in progress tests, and it is
\* false.
FlagFalseNow == waitOn \in DOMAIN srvStatus /\ srvStatus[waitOn] = JFalse

\* C13: a wait returns only on a step taken while the server's status has
\* the flag false; if from some time on the status has the flag false for
\* good, every wait in progress returns; and if from some time on the status
\* never has the flag false (it is true, null or missing), a wait in progress
\* then or later never returns and goes on without end from a fetch of the
\* status (the only step that leads to a sleep) to a sleep and back: there is
\* no timeout and no bound on the number of polls.
C13_WaitLiveness ==
    /\ [][(pc # "returned" /\ pc' = "returned") => FlagFalseNow]_vars
    /\ <>[]FlagFalseNow => []<>(~Waiting)
    /\ (<>[]~FlagFalseNow /\ []<>Waiting) =>
            (<>[]Waiting /\ []<>(pc = "sleep") /\ []<>(pc = "fetch"))

\* A wait on a task that is not training any more but whose status lacks the
\* flag or has it true or null has filled the window with polls and is to
\* poll again.
C13_Witness ==
    /\ pc = "sleep"
    /\ waitOn = "training"
    /\ Len(fetched) = MaxRequests
    /\ \A i \in 1..Len(fetched) : fetched[i] # JFalse
    /\ \E i \in 1..Len(fetched) : fetched[i] = "missing"
    /\ Len(sleeps) = MaxRequests - 1

====
